---- MODULE Spec2Model ----
(***************************************************************************)
(* aiko_chat: the chat server's message routing (chat.py ChatServerImpl),  *)
(* the recipient parser, the REPL's command interpreter (ChatREPLImpl)     *)
(* and the auto-responding bot (bot.py ChatBotImpl).                       *)
(*                                                                         *)
(* Text is a sequence of lexemes.  A lexeme is one whitespace character    *)
(* (" " or "\t") or a fixed run of non-whitespace characters ("/admin",    *)
(* "carol", "(", "@@bot", ...).  The run lexemes are chosen so that no     *)
(* run is a part of another one: equality, prefix, suffix and substring    *)
(* tests on lexeme sequences then agree with the tests on the characters.  *)
(* Channel, user and topic names are TLA+ strings (only compared and       *)
(* concatenated).                                                          *)
(***************************************************************************)
EXTENDS Naturals, Sequences, FiniteSets, TLC

VARIABLES
    share_admin,        \* ChatServerImpl.share["admin"]
    llm_enabled,        \* ChatServerImpl.share["llm_enabled"]
    robot_server,       \* ChatServerImpl.robot_server: None or the robot's name
    robot_server_topic, \* ChatServerImpl.robot_server_topic
    robots_present,     \* the robot services that are up (discovery's view)
    call,               \* the handler that ran last, with its arguments
    trace,              \* what that handler did, in order
    parse_in,           \* argument of the last parse_recipients call
    parse_out,          \* its result
    bot_chat_server,    \* ChatBotImpl.chat_server, per bot
    bot_handlers,       \* topics a bot's server_message_handler is added to
    inbox,              \* per bot: published messages not yet handled
    mailbox,            \* send_message calls on their way to the server
    human_posts,        \* number of messages posted by people so far
    replies,            \* per bot: number of replies it has sent so far
    repl_chat_server,   \* ChatREPLImpl.chat_server
    current_channel,    \* ChatREPLImpl.current_channel
    chat_server_topic,  \* ChatREPLImpl.chat_server_topic
    chat_server_topic_path, \* ChatREPLImpl.chat_server_topic_path
    ec_consumer,        \* ChatREPLImpl.ec_consumer
    repl_handlers,      \* topics the REPL's server_message_handler is added to
    repl_inbox,         \* published messages on their way to the REPL
    repl_running,       \* the ReplSession runs (started, not stopped)
    input_released,     \* the ReplSession has given up the terminal
    terminated          \* aiko.process.terminate() has been called

vars == <<share_admin, llm_enabled, robot_server, robot_server_topic,
          robots_present,
          call, trace, parse_in, parse_out,
          bot_chat_server, bot_handlers, inbox, mailbox, human_posts,
          replies, repl_chat_server, current_channel, chat_server_topic,
          chat_server_topic_path, ec_consumer, repl_handlers, repl_inbox,
          repl_running, input_released, terminated>>

server_vars == <<share_admin, llm_enabled, robot_server, robot_server_topic>>
parse_vars == <<parse_in, parse_out>>
bot_vars == <<bot_chat_server, bot_handlers, inbox, mailbox, human_posts,
              replies>>
repl_vars == <<repl_chat_server, current_channel, chat_server_topic,
               chat_server_topic_path, ec_consumer, repl_handlers,
               repl_inbox, repl_running, input_released, terminated>>

None == "None"
Unset == "Unset"        \* an attribute that no assignment has created yet

(***************************************************************************)
(* Bounds                                                                  *)
(***************************************************************************)
MaxBody == 3            \* lexemes in a routed message body
MaxAdminBody == 4       \* lexemes in a body built from the admin lexemes
MaxRecipients == 2      \* entries in a recipient list
MaxAdminRecipients == 1 \* entries in the recipient list of such a body
MaxRecipientChars == 4  \* characters in a raw recipient string
MaxBotBody == 3         \* lexemes in a message a person posts near bots
MaxHumanPosts == 1      \* messages people post near bots
MaxReplArgs == 3        \* lexemes after the first one of a REPL input line

(***************************************************************************)
(* Program constants                                                       *)
(***************************************************************************)
_ADMIN == <<"andyg">>
_CHANNEL_NAME == "general"
_ROBOT_NAMES == <<"laika", "oscar">>
ADMIN_COMMAND == <<"/admin">>
LLM_NOT_ENABLED == <<"LLM", " ", "is", " ", "not", " ", "enabled">>
topic_path == "aiko/host/1/1"           \* the server's own topic path
RobotTopicPath(name) == "aiko/host/2/" \o name

(***************************************************************************)
(* Python string operations on lexeme sequences                            *)
(***************************************************************************)
Whitespace == {" ", "\t"}

RECURSIVE lstrip(_)
lstrip(s) ==
    IF s # <<>> /\ Head(s) \in Whitespace THEN lstrip(Tail(s)) ELSE s

RECURSIVE rstrip(_)
rstrip(s) ==
    IF s # <<>> /\ s[Len(s)] \in Whitespace
    THEN rstrip(SubSeq(s, 1, Len(s) - 1)) ELSE s

\* mutant: only the leading whitespace is removed
strip_leading_only(s) == lstrip(s)

\* str.strip(): removes leading and trailing whitespace of any kind
strip(s) == rstrip(lstrip(s))

\* str.split(sep) with a one-character separator: every occurrence of sep
\* ends a field, empty fields are kept, "".split(sep) == [""]
RECURSIVE split(_, _)
split(s, sep) ==
    IF \A i \in 1..Len(s) : s[i] # sep THEN <<s>>
    ELSE LET i == CHOOSE k \in 1..Len(s) :
                      s[k] = sep /\ \A j \in 1..(k - 1) : s[j] # sep
         IN <<SubSeq(s, 1, i - 1)>> \o split(SubSeq(s, i + 1, Len(s)), sep)

\* sub in s
Contains(sub, s) ==
    \E i \in 0..(Len(s) - Len(sub)) : SubSeq(s, i + 1, i + Len(sub)) = sub

\* s.endswith(suffix)
endswith(s, suffix) ==
    /\ Len(s) >= Len(suffix)
    /\ SubSeq(s, Len(s) - Len(suffix) + 1, Len(s)) = suffix

LowerLexeme(c) ==
    CASE c = "Oscar" -> "oscar"
      [] c = "Laika" -> "laika"
      [] OTHER -> c

\* str.lower()
lower(s) == [i \in 1..Len(s) |-> LowerLexeme(s[i])]

SeqsUpTo(S, n) == UNION {[1..k -> S] : k \in 0..n}

(***************************************************************************)
(* Events a handler leaves in the trace                                    *)
(***************************************************************************)
\* aiko.process.message.publish(topic, payload), at source line `line`,
\* while the fan-out loop handled recipient number idx
Publish(topic, payload, line, idx) ==
    [kind |-> "publish", topic |-> topic, payload |-> payload,
     line |-> line, idx |-> idx]

\* chain.invoke({"input": message}) on the inference backend
Invoke(message, idx) ==
    [kind |-> "llm", topic |-> "", payload |-> message, line |-> 349,
     idx |-> idx]

\* self.robot_server.action(message)
Action(message, idx) ==
    [kind |-> "action", topic |-> "", payload |-> message, line |-> 373,
     idx |-> idx]

\* an exception leaving the handler
Raise(line, idx) ==
    [kind |-> "raise", topic |-> "", payload |-> <<>>, line |-> line,
     idx |-> idx]

Raised(events) ==
    events # <<>> /\ events[Len(events)].kind = "raise"

(***************************************************************************)
(* The collaborators' answers.  The inference backend and the robot proxy  *)
(* are outside the server: a call returns, or raises.                      *)
(***************************************************************************)
LLMResponses == {<<"ok">>, <<"(", "sit", ")">>}
LLMOutcomes ==
    {[raises |-> TRUE, response |-> <<>>]}
        \cup {[raises |-> FALSE, response |-> r] : r \in LLMResponses}
RobotOutcomes == {"ok", "raise"}
NoLLM == [raises |-> FALSE, response |-> <<>>]

\* the outcomes that handling one recipient can meet
OutcomesFor(recipient) ==
    IF recipient = "llm" /\ llm_enabled
    THEN [llm : LLMOutcomes,
          robot : IF robot_server # None THEN RobotOutcomes ELSE {"ok"}]
    ELSE IF recipient = "robot" /\ robot_server # None
    THEN [llm : {NoLLM}, robot : RobotOutcomes]
    ELSE {[llm |-> NoLLM, robot |-> "ok"]}

\* one outcome for every pass of the loop
RECURSIVE Oracles(_)
Oracles(recipients) ==
    IF recipients = <<>> THEN {<<>>}
    ELSE {<<h>> \o t : h \in OutcomesFor(Head(recipients)),
                       t \in Oracles(Tail(recipients))}

\* no handler is running and the record of the last one has been dropped
NoCall == [op |-> "none", self |-> "", username |-> "", recipients |-> <<>>,
           message |-> <<>>]

(***************************************************************************)
(* ChatServerImpl                                                          *)
(***************************************************************************)
\* mutant: the closing parenthesis is not looked at
is_sexp_open_only(sexp) ==
    Len(sexp) >= 2 /\ sexp[1] = "("

is_sexp(sexp) ==
    Len(sexp) >= 2 /\ sexp[1] = "(" /\ sexp[Len(sexp)] = ")"

\* mutant: the robot proxy is used without looking whether there is one
send_robot_unguarded(username, recipient, message, outcome, idx) ==
    LET sexp == strip(message)
    IN IF is_sexp(sexp)
       THEN <<Publish(robot_server_topic, sexp, 371, idx)>>
       ELSE IF robot_server = None THEN <<Raise(373, idx)>>
       ELSE <<Action(message, idx)>>
                \o (IF outcome = "raise" THEN <<Raise(373, idx)>> ELSE <<>>)

\* send_robot(username, recipient, message): the events of one call
send_robot(username, recipient, message, outcome, idx) ==
    IF robot_server # None
    THEN LET sexp == strip(message)
         IN IF is_sexp(sexp)
            THEN <<Publish(robot_server_topic, sexp, 371, idx)>>
            ELSE <<Action(message, idx)>>
                     \o (IF outcome = "raise" THEN <<Raise(373, idx)>>
                         ELSE <<>>)
    ELSE <<>>

is_robot_command(message) ==
    \E n \in 1..Len(_ROBOT_NAMES) :
        Contains(<<_ROBOT_NAMES[n]>>, lower(message))

\* mutant: the backend is called whatever the flag says
llm_events_flag_ignored(username, recipient_topic_out, message, outcome, idx) ==
    <<Invoke(message, idx),
      Publish(recipient_topic_out, outcome.llm.response, 354, idx)>>

\* the body of `if recipient == "llm":`
llm_events(username, recipient_topic_out, message, outcome, idx) ==
    IF llm_enabled
    THEN <<Invoke(message, idx)>> \o
         (IF outcome.llm.raises THEN <<Raise(349, idx)>>
          ELSE LET response == outcome.llm.response
                   robot == IF is_robot_command(message)
                            THEN send_robot(username, "robot", response,
                                            outcome.robot, idx)
                            ELSE <<>>
               IN IF Raised(robot) THEN robot
                  ELSE robot \o
                       <<Publish(recipient_topic_out, response, 354, idx)>>)
    ELSE <<Publish(recipient_topic_out, LLM_NOT_ENABLED, 354, idx)>>

\* mutant: the handler runs before the message is published
recipient_events_handler_first(username, recipient, message, outcome, idx) ==
    LET recipient_topic_out == topic_path \o "/" \o recipient
        published == <<Publish(recipient_topic_out, message, 278, idx)>>
        handled == IF recipient = "llm"
                   THEN llm_events(username, recipient_topic_out, message,
                                   outcome, idx)
                   ELSE <<>>
    IN IF Raised(handled) THEN handled ELSE handled \o published

\* one pass of `for recipient in recipients:`
recipient_events(username, recipient, message, outcome, idx) ==
    LET recipient_topic_out == topic_path \o "/" \o recipient
        published == <<Publish(recipient_topic_out, message, 278, idx)>>
    IN IF recipient = "llm"
       THEN published \o llm_events(username, recipient_topic_out, message,
                                    outcome, idx)
       ELSE IF recipient = "robot"
       THEN published \o send_robot(username, recipient, message,
                                    outcome.robot, idx)
       ELSE published

\* the loop: an exception ends it
RECURSIVE fan_out(_, _, _, _, _)
fan_out(username, recipients, message, oracle, idx) ==
    IF idx > Len(recipients) THEN <<>>
    ELSE LET events == recipient_events(username, recipients[idx], message,
                                        oracle[idx], idx)
         IN IF Raised(events) THEN events
            ELSE events \o fan_out(username, recipients, message, oracle,
                                   idx + 1)

send_message(username, recipients, message, oracle) ==
    LET command_line == strip(message)
        tokens == split(command_line, " ")
        is_admin == command_line # <<>> /\ tokens[1] = ADMIN_COMMAND
    IN /\ share_admin' = IF is_admin /\ Len(tokens) > 1 THEN tokens[2]
                         ELSE share_admin
       /\ trace' = IF is_admin THEN <<>>
                   ELSE fan_out(username, recipients, message, oracle, 1)
       /\ call' = [op |-> "send_message", self |-> "server",
                   username |-> username, recipients |-> recipients,
                   message |-> message]
       /\ UNCHANGED <<llm_enabled, robot_server, robot_server_topic>>

\* ChatServerImpl.discovery_add_handler
server_discovery_add_handler(name) ==
    /\ robot_server' = name
    /\ robot_server_topic' = RobotTopicPath(name) \o "/in"
    /\ call' = [op |-> "discovery_add", self |-> "server", username |-> "",
                recipients |-> <<>>, message |-> <<name>>]
    /\ trace' = <<>>
    /\ UNCHANGED <<share_admin, llm_enabled>>

\* ChatServerImpl.discovery_remove_handler
server_discovery_remove_handler(name) ==
    /\ robot_server' = None
    /\ call' = [op |-> "discovery_remove", self |-> "server",
                username |-> "", recipients |-> <<>>, message |-> <<name>>]
    /\ trace' = <<>>
    /\ UNCHANGED <<share_admin, llm_enabled, robot_server_topic>>

(***************************************************************************)
(* parse_recipients                                                        *)
(***************************************************************************)
\* an argument of type `str | None`
NoneArg == [none |-> TRUE, text |-> <<>>]
Str(text) == [none |-> FALSE, text |-> text]

\* map(str.strip, fields)
strip_each(fields) == [i \in 1..Len(fields) |-> strip(fields[i])]

\* filter(None, fields): drops the empty strings
filter_none(fields) == SelectSeq(fields, LAMBDA f : f # <<>>)

\* mutant: the blank tokens are kept
parse_recipients_blanks_kept(recipients) ==
    IF recipients.none \/ recipients.text = <<>> THEN <<>>
    ELSE strip_each(split(recipients.text, ","))

parse_recipients(recipients) ==
    IF recipients.none \/ recipients.text = <<>> THEN <<>>
    ELSE filter_none(strip_each(split(recipients.text, ",")))

(***************************************************************************)
(* ChatBotImpl (bot.py)                                                    *)
(***************************************************************************)
\* the bots that run, by botname; "@@bot" is the default _BOT_NAME
BotNames == {"@@bot", "@@bot2"}

\* the lexemes of a botname
Lexemes(botname) ==
    IF botname = "@@bot2" THEN <<"@@bot", "2">> ELSE <<botname>>

SENTINEL == <<" ", "!!!!">>

\* mutant: the reply carries no marker
reply_without_marker(botname) ==
    <<"Hello,", " ", "I", " ", "am", " ">> \o Lexemes(botname)

\* f"Hello, I am {self.botname} !!!!"
reply(botname) ==
    <<"Hello,", " ", "I", " ", "am", " ">> \o Lexemes(botname) \o SENTINEL

\* mutant: the marker counts wherever it stands
should_respond_marker_anywhere(botname, payload_in) ==
    /\ Contains(Lexemes(botname), payload_in)
    /\ ~Contains(SENTINEL, payload_in)

\* the two tests on payload_in
should_respond(botname, payload_in) ==
    /\ Contains(Lexemes(botname), payload_in)
    /\ ~endswith(payload_in, SENTINEL)

\* self.chat_server.send_message(...): a call on its way to the server
SendCall(username, recipients, message) ==
    [username |-> username, recipients |-> recipients, message |-> message]

Sends(username, recipients, message, line) ==
    [kind |-> "send_message", topic |-> "", payload |-> message,
     line |-> line, idx |-> 0]

\* ChatBotImpl.discovery_add_handler
bot_discovery_add_handler(b) ==
    LET server_topic_out == topic_path \o "/" \o _CHANNEL_NAME
    IN /\ bot_chat_server' = [bot_chat_server EXCEPT ![b] = "server"]
       /\ bot_handlers' =
              [bot_handlers EXCEPT ![b] = @ \cup {server_topic_out}]
       /\ call' = [op |-> "discovery_add", self |-> b, username |-> "",
                   recipients |-> <<>>, message |-> <<>>]
       /\ trace' = <<>>
       /\ UNCHANGED <<inbox, mailbox, human_posts, replies>>

\* ChatBotImpl.discovery_remove_handler
bot_discovery_remove_handler(b) ==
    /\ bot_chat_server' = [bot_chat_server EXCEPT ![b] = None]
    /\ call' = [op |-> "discovery_remove", self |-> b, username |-> "",
                recipients |-> <<>>, message |-> <<>>]
    /\ trace' = <<>>
    /\ UNCHANGED <<bot_handlers, inbox, mailbox, human_posts, replies>>

\* ChatBotImpl.server_message_handler, for the oldest message in b's inbox;
\* call.username records who had sent that message
server_message_handler(b) ==
    LET payload_in == Head(inbox[b]).payload
        responds == should_respond(b, payload_in)
                        /\ bot_chat_server[b] # None
        recipients == <<_CHANNEL_NAME>>
    IN /\ inbox' = [inbox EXCEPT ![b] = Tail(@)]
       /\ mailbox' = IF responds
                     THEN Append(mailbox, SendCall(b, recipients, reply(b)))
                     ELSE mailbox
       /\ replies' = IF responds THEN [replies EXCEPT ![b] = @ + 1]
                     ELSE replies
       /\ trace' = IF responds THEN <<Sends(b, recipients, reply(b), 78)>>
                   ELSE <<>>
       /\ call' = [op |-> "server_message_handler", self |-> b,
                   username |-> Head(inbox[b]).author, recipients |-> <<>>,
                   message |-> payload_in]
       /\ UNCHANGED <<bot_chat_server, bot_handlers, human_posts>>

\* the transport: every publish of the handler that just ran reaches the
\* actors that have a message handler added to its topic
RECURSIVE Delivered(_, _, _)
Delivered(events, author, topics) ==
    IF events = <<>> THEN <<>>
    ELSE (IF Head(events).kind = "publish" /\ Head(events).topic \in topics
          THEN <<[topic |-> Head(events).topic,
                  payload |-> Head(events).payload, author |-> author]>>
          ELSE <<>>) \o Delivered(Tail(events), author, topics)

(***************************************************************************)
(* ChatREPLImpl                                                            *)
(***************************************************************************)
repl_username == "alice"

\* the characters of a token, as a name
RECURSIVE Concat(_)
Concat(token) ==
    IF token = <<>> THEN "" ELSE Head(token) \o Concat(Tail(token))

RemoveHandler(topic, line) ==
    [kind |-> "remove_message_handler", topic |-> topic, payload |-> <<>>,
     line |-> line, idx |-> 0]
AddHandler(topic, line) ==
    [kind |-> "add_message_handler", topic |-> topic, payload |-> <<>>,
     line |-> line, idx |-> 0]
PrintLine(output, line) ==
    [kind |-> "print", topic |-> "", payload |-> output, line |-> line,
     idx |-> 0]
Stop(line) ==
    [kind |-> "stop", topic |-> "", payload |-> <<>>, line |-> line,
     idx |-> 0]
Terminate(line) ==
    [kind |-> "terminate", topic |-> "", payload |-> <<>>, line |-> line,
     idx |-> 0]

\* ReplSession.stop(): the input loop ends and the session gives the
\* terminal back (the class is not part of chat.py; after the spec's
\* "stopping local input, releasing the input subsystem resource")
repl_session_stop ==
    /\ repl_running' = FALSE
    /\ input_released' = TRUE

\* the branch `if command in [":change_channel", ":cc"]:` with a second
\* token; reading chat_server_topic before any discovery raises
change_channel(tokens) ==
    LET channel == Concat(tokens[2])
        topic == chat_server_topic_path \o "/" \o channel
    IN /\ current_channel' = channel
       /\ IF chat_server_topic = Unset
          THEN /\ trace' = <<Raise(147, 0)>>
               /\ UNCHANGED <<chat_server_topic, repl_handlers>>
          ELSE /\ chat_server_topic' = topic
               /\ repl_handlers' =
                      (repl_handlers \ {chat_server_topic}) \cup {topic}
               /\ trace' = <<RemoveHandler(chat_server_topic, 146),
                             AddHandler(topic, 150)>>
       /\ UNCHANGED <<repl_chat_server, chat_server_topic_path, ec_consumer,
                      repl_inbox, repl_running, input_released, terminated,
                      mailbox>>

\* mutant: the line goes to the default channel
send_chat_message_default_channel(command_line) ==
    IF repl_chat_server # None
    THEN LET recipients == <<_CHANNEL_NAME>>
         IN /\ mailbox' = Append(mailbox,
                                 SendCall(repl_username, recipients,
                                          command_line))
            /\ trace' = <<Sends(repl_username, recipients, command_line,
                                166)>>
            /\ UNCHANGED repl_vars
    ELSE /\ trace' = <<>>
         /\ UNCHANGED <<repl_vars, mailbox>>

\* the final `else:` of command_handler: the line is a chat message
send_chat_message(command_line) ==
    IF repl_chat_server # None
    THEN LET recipients == <<current_channel>>
         IN /\ mailbox' = Append(mailbox,
                                 SendCall(repl_username, recipients,
                                          command_line))
            /\ trace' = <<Sends(repl_username, recipients, command_line,
                                166)>>
            /\ UNCHANGED repl_vars
    ELSE /\ trace' = <<>>
         /\ UNCHANGED <<repl_vars, mailbox>>

\* ChatREPLImpl.command_handler; call.recipients records the channel the
\* REPL was on when the line came
command_handler(line) ==
    LET command_line == strip(line)
        tokens == split(command_line, " ")
        command == tokens[1]
    IN /\ call' = [op |-> "command_handler", self |-> "repl",
                   username |-> repl_username,
                   recipients |-> <<current_channel>>, message |-> line]
       /\ IF command_line = <<>>
          THEN /\ trace' = <<>>
               /\ UNCHANGED <<repl_vars, mailbox>>
          ELSE IF command \in {<<":change_channel">>, <<":cc">>}
          THEN IF Len(tokens) > 1
               THEN change_channel(tokens)
               ELSE /\ trace' = <<>>
                    /\ UNCHANGED <<repl_vars, mailbox>>
          ELSE IF command \in {<<":exit">>, <<":x">>}
          THEN /\ repl_session_stop
               /\ terminated' = TRUE
               /\ trace' = <<Stop(153), Terminate(154)>>
               /\ UNCHANGED <<repl_chat_server, current_channel,
                              chat_server_topic, chat_server_topic_path,
                              ec_consumer, repl_handlers, repl_inbox,
                              mailbox>>
          ELSE IF command \in {<<":help">>, <<":?">>}
          THEN /\ trace' = <<PrintLine(<<":change_channel">>, 156),
                             PrintLine(<<":exit">>, 157),
                             PrintLine(<<":help">>, 158),
                             PrintLine(<<":list_channels">>, 159)>>
               /\ UNCHANGED <<repl_vars, mailbox>>
          ELSE IF command \in {<<":list_channels">>, <<":lc">>}
          THEN /\ trace' = <<PrintLine(<<"general,", " ", "llm,", " ",
                                         "random,", " ", "robot,", " ",
                                         "yolo">>, 161)>>
               /\ UNCHANGED <<repl_vars, mailbox>>
          ELSE send_chat_message(command_line)

\* ChatREPLImpl.discovery_add_handler
repl_discovery_add_handler(server_topic_path) ==
    LET topic == server_topic_path \o "/" \o current_channel
    IN /\ repl_chat_server' = "server"
       /\ chat_server_topic_path' = server_topic_path
       /\ chat_server_topic' = topic
       /\ repl_handlers' = repl_handlers \cup {topic}
       /\ ec_consumer' = "ECConsumer"
       /\ call' = [op |-> "discovery_add", self |-> "repl", username |-> "",
                   recipients |-> <<>>, message |-> <<>>]
       /\ trace' = <<PrintLine(<<"Connected">>, 170), AddHandler(topic, 175)>>
       /\ UNCHANGED <<current_channel, repl_inbox, repl_running,
                      input_released, terminated>>

\* ChatREPLImpl.discovery_remove_handler
repl_discovery_remove_handler ==
    /\ ec_consumer' = None
    /\ repl_chat_server' = None
    /\ call' = [op |-> "discovery_remove", self |-> "repl", username |-> "",
                recipients |-> <<>>, message |-> <<>>]
    /\ trace' = <<PrintLine(<<"Disconnected">>, 193)>>
    /\ UNCHANGED <<current_channel, chat_server_topic,
                   chat_server_topic_path, repl_handlers, repl_inbox,
                   repl_running, input_released, terminated>>

\* ChatREPLImpl.server_message_handler, for the oldest delivered message;
\* call.recipients records the topic it was published on
repl_server_message_handler ==
    /\ repl_inbox' = Tail(repl_inbox)
    /\ call' = [op |-> "server_message_handler", self |-> "repl",
                username |-> Head(repl_inbox).author,
                recipients |-> <<Head(repl_inbox).topic>>,
                message |-> Head(repl_inbox).payload]
    /\ trace' = <<PrintLine(Head(repl_inbox).payload, 204)>>
    /\ UNCHANGED <<repl_chat_server, current_channel, chat_server_topic,
                   chat_server_topic_path, ec_consumer, repl_handlers,
                   repl_running, input_released, terminated>>

\* mutant: the signal ends the process and leaves the session running
on_sigint_terminate_only ==
    /\ terminated' = TRUE
    /\ call' = [op |-> "on_sigint", self |-> "repl", username |-> "",
                recipients |-> <<>>, message |-> <<>>]
    /\ trace' = <<Terminate(208)>>
    /\ UNCHANGED <<repl_chat_server, current_channel, chat_server_topic,
                   chat_server_topic_path, ec_consumer, repl_handlers,
                   repl_inbox, repl_running, input_released>>

\* ChatREPLImpl.on_sigint
on_sigint ==
    /\ repl_session_stop
    /\ terminated' = TRUE
    /\ call' = [op |-> "on_sigint", self |-> "repl", username |-> "",
                recipients |-> <<>>, message |-> <<>>]
    /\ trace' = <<Stop(207), Terminate(208)>>
    /\ UNCHANGED <<repl_chat_server, current_channel, chat_server_topic,
                   chat_server_topic_path, ec_consumer, repl_handlers,
                   repl_inbox>>

(***************************************************************************)
(* Inputs                                                                  *)
(***************************************************************************)
Usernames == {"alice", ""}     \* send_command sends as ""
RouteUsernames == {"alice"}
RecipientNames == {"general", "llm", "robot", "bob"}
RecipientLists == SeqsUpTo(RecipientNames, MaxRecipients)
RouteLexemes == {" ", "(", ")", "Oscar"}
AdminLexemes == {"/admin", " ", "\t", "carol"}
RouteBodies == SeqsUpTo(RouteLexemes, MaxBody)
AdminBodies == SeqsUpTo(AdminLexemes, MaxAdminBody)
RecipientChars == {",", " ", "\t", "a", "b"}
RecipientStrings ==
    {NoneArg} \cup {Str(t) : t \in SeqsUpTo(RecipientChars, MaxRecipientChars)}
AdminRecipientLists ==
    SeqsUpTo({"general", "llm", "robot"}, MaxAdminRecipients)

\* ChatServerImpl.__init__, with either value of the --llm flag
ServerInit ==
    /\ share_admin = _ADMIN
    /\ llm_enabled \in BOOLEAN
    /\ robot_server = None
    /\ robot_server_topic = Unset
    /\ call = NoCall
    /\ trace = <<>>

\* ChatBotImpl.__init__ of every bot; nothing is in flight
BotInit ==
    /\ bot_chat_server = [b \in BotNames |-> None]
    /\ bot_handlers = [b \in BotNames |-> {}]
    /\ inbox = [b \in BotNames |-> <<>>]
    /\ mailbox = <<>>
    /\ human_posts = 0
    /\ replies = [b \in BotNames |-> 0]

\* ChatREPLImpl.__init__: chat_server_topic, chat_server_topic_path and
\* ec_consumer are not assigned there
ReplInit ==
    /\ repl_chat_server = None
    /\ current_channel = _CHANNEL_NAME
    /\ chat_server_topic = Unset
    /\ chat_server_topic_path = Unset
    /\ ec_consumer = Unset
    /\ repl_handlers = {}
    /\ repl_inbox = <<>>
    /\ repl_running = TRUE
    /\ input_released = FALSE
    /\ terminated = FALSE

Init ==
    /\ ServerInit
    /\ robots_present = {}
    /\ parse_in = NoneArg
    /\ parse_out = <<>>
    /\ BotInit
    /\ ReplInit

SendMessage ==
    /\ call = NoCall
    /\ \E username \in RouteUsernames, recipients \in RecipientLists,
          message \in RouteBodies :
           \E oracle \in Oracles(recipients) :
               /\ send_message(username, recipients, message, oracle)
               /\ UNCHANGED <<robots_present, parse_vars, bot_vars, repl_vars>>

SendAdminMessage ==
    /\ call = NoCall
    /\ \E username \in Usernames, recipients \in AdminRecipientLists,
          message \in AdminBodies :
           \E oracle \in Oracles(recipients) :
               /\ send_message(username, recipients, message, oracle)
               /\ UNCHANGED <<robots_present, parse_vars, bot_vars, repl_vars>>

\* a watched robot service comes up: discovery calls the add handler
RobotAdded ==
    /\ call = NoCall
    /\ \E n \in 1..Len(_ROBOT_NAMES) :
           /\ _ROBOT_NAMES[n] \notin robots_present
           /\ robots_present' = robots_present \cup {_ROBOT_NAMES[n]}
           /\ server_discovery_add_handler(_ROBOT_NAMES[n])
           /\ UNCHANGED <<parse_vars, bot_vars, repl_vars>>

\* a robot service that was up goes away: discovery calls the remove
\* handler
RobotRemoved ==
    /\ call = NoCall
    /\ \E n \in 1..Len(_ROBOT_NAMES) :
           /\ _ROBOT_NAMES[n] \in robots_present
           /\ robots_present' = robots_present \ {_ROBOT_NAMES[n]}
           /\ server_discovery_remove_handler(_ROBOT_NAMES[n])
           /\ UNCHANGED <<parse_vars, bot_vars, repl_vars>>

\* The record of a finished handler is dropped before the next one runs:
\* call, trace, parse_in and parse_out describe one run, the program's
\* state stays.
Forget ==
    /\ call # NoCall
    /\ call' = NoCall
    /\ trace' = <<>>
    /\ parse_in' = NoneArg
    /\ parse_out' = <<>>
    /\ UNCHANGED <<server_vars, robots_present, bot_vars, repl_vars>>

\* the server routing messages
Next == SendMessage \/ RobotAdded \/ RobotRemoved \/ Forget
Spec == Init /\ [][Next]_vars

\* a caller of parse_recipients, such as send_command
ParseRecipients ==
    /\ call = NoCall
    /\ \E recipients \in RecipientStrings :
           /\ parse_in' = recipients
           /\ parse_out' = parse_recipients(recipients)
           /\ call' = [op |-> "parse_recipients", self |-> "send_command",
                       username |-> "", recipients |-> <<>>,
                       message |-> <<>>]
           /\ UNCHANGED <<server_vars, robots_present, trace, bot_vars,
                          repl_vars>>

NextParse == ParseRecipients \/ Forget
SpecParse == Init /\ [][NextParse]_vars

BotLexemes == {"@@bot", "2", " ", "!!!!"}
BotBodies == SeqsUpTo(BotLexemes, MaxBotBody)

\* a person posts on the general channel (ChatREPLImpl.command_handler or
\* send_command calling chat_server.send_message); the next post comes
\* once the replies to the one before have been handled
HumanPost ==
    /\ call = NoCall
    /\ human_posts < MaxHumanPosts
    /\ mailbox = <<>>
    /\ \A b \in BotNames : inbox[b] = <<>>
    /\ \E message \in BotBodies :
           mailbox' = Append(mailbox,
                             SendCall("alice", <<_CHANNEL_NAME>>, message))
    /\ human_posts' = human_posts + 1
    /\ UNCHANGED <<server_vars, robots_present, parse_vars, call, trace,
                   bot_chat_server,
                   bot_handlers, inbox, replies, repl_vars>>

\* the server handles the oldest send_message call
ServerReceive ==
    /\ call = NoCall
    /\ mailbox # <<>>
    /\ LET m == Head(mailbox)
       IN \E oracle \in Oracles(m.recipients) :
              /\ send_message(m.username, m.recipients, m.message, oracle)
              /\ inbox' = [b \in BotNames |->
                              inbox[b] \o Delivered(trace', m.username,
                                                    bot_handlers[b])]
              /\ repl_inbox' = repl_inbox \o Delivered(trace', m.username,
                                                       repl_handlers)
    /\ mailbox' = Tail(mailbox)
    /\ UNCHANGED <<robots_present, parse_vars, bot_chat_server, bot_handlers,
                   human_posts,
                   replies, repl_chat_server, current_channel,
                   chat_server_topic, chat_server_topic_path, ec_consumer,
                   repl_handlers, repl_running, input_released, terminated>>

BotReceive ==
    /\ call = NoCall
    /\ \E b \in BotNames :
           /\ inbox[b] # <<>>
           /\ server_message_handler(b)
    /\ UNCHANGED <<server_vars, robots_present, parse_vars, repl_vars>>

\* the chat server is discovered, once per bot
BotServerAdded ==
    /\ call = NoCall
    /\ \E b \in BotNames :
           /\ bot_handlers[b] = {}
           /\ bot_discovery_add_handler(b)
    /\ UNCHANGED <<server_vars, robots_present, parse_vars, repl_vars>>

BotServerRemoved ==
    /\ call = NoCall
    /\ \E b \in BotNames :
           /\ bot_chat_server[b] # None
           /\ bot_discovery_remove_handler(b)
    /\ UNCHANGED <<server_vars, robots_present, parse_vars, repl_vars>>

\* one chat server, the bots and the people on the general channel
NextBot ==
    \/ HumanPost \/ ServerReceive \/ BotReceive
    \/ BotServerAdded \/ BotServerRemoved \/ Forget
SpecBot == Init /\ [][NextBot]_vars

ReplCommands ==
    {":change_channel", ":cc", ":exit", ":x", ":help", ":?",
     ":list_channels", ":lc", "hello"}
ReplArgLexemes == {" ", "\t", "random"}
\* input lines: blank ones, and a first word followed by more lexemes,
\* with or without a leading space
ReplLines ==
    {<<>>, <<" ">>}
        \cup {pad \o <<c>> \o rest :
                  pad \in {<<>>, <<" ">>}, c \in ReplCommands,
                  rest \in SeqsUpTo(ReplArgLexemes, MaxReplArgs)}

\* the ReplSession hands a line to command_handler; the user types once
\* the previous message has gone through
CommandLine ==
    /\ call = NoCall
    /\ repl_running
    /\ mailbox = <<>>
    /\ repl_inbox = <<>>
    /\ \E line \in ReplLines : command_handler(line)
    /\ UNCHANGED <<server_vars, robots_present, parse_vars, bot_chat_server,
                   bot_handlers,
                   inbox, human_posts, replies>>

\* the one chat server is discovered by the REPL
ReplServerAdded ==
    /\ call = NoCall
    /\ repl_chat_server = None
    /\ repl_discovery_add_handler(topic_path)
    /\ UNCHANGED <<server_vars, robots_present, parse_vars, bot_vars>>

ReplServerRemoved ==
    /\ call = NoCall
    /\ repl_chat_server # None
    /\ repl_discovery_remove_handler
    /\ UNCHANGED <<server_vars, robots_present, parse_vars, bot_vars>>

ReplReceive ==
    /\ call = NoCall
    /\ repl_inbox # <<>>
    /\ repl_server_message_handler
    /\ UNCHANGED <<server_vars, robots_present, parse_vars, bot_vars>>

\* SIGINT reaches the process while it runs
Sigint ==
    /\ call = NoCall
    /\ ~terminated
    /\ on_sigint
    /\ UNCHANGED <<server_vars, robots_present, parse_vars, bot_vars>>

\* one chat server and the REPL of one user
NextRepl ==
    \/ CommandLine \/ ReplServerAdded \/ ReplServerRemoved
    \/ ServerReceive \/ ReplReceive \/ Sigint \/ Forget
SpecRepl == Init /\ [][NextRepl]_vars

\* the server receiving bodies written with the admin directive
NextAdmin == SendAdminMessage \/ RobotAdded \/ RobotRemoved \/ Forget
SpecAdmin == Init /\ [][NextAdmin]_vars

RawRecipients == SeqsUpTo(RecipientChars, MaxRecipientChars)
RawBodies == {<<"hello">>, <<" ", "hello">>}

\* send_message invoked with recipients as a str, as the wire message
\* "(send_message username @all hello)" does: `for recipient in recipients`
\* then takes the string character by character
SendRawMessage ==
    /\ call = NoCall
    /\ \E username \in Usernames, recipients \in RawRecipients,
          message \in RawBodies :
           \E oracle \in Oracles(recipients) :
               /\ send_message(username, recipients, message, oracle)
               /\ UNCHANGED <<robots_present, parse_vars, bot_vars, repl_vars>>

\* the server receiving calls whose recipients are a raw string
NextRaw == SendRawMessage \/ Forget
SpecRaw == Init /\ [][NextRaw]_vars

(***************************************************************************)
(* Vocabulary of the claims                                                *)
(***************************************************************************)
\* the whitespace-delimited tokens of a text
RECURSIVE WsTokens(_)
WsTokens(s) ==
    LET t == lstrip(s)
    IN IF t = <<>> THEN <<>>
       ELSE LET n == IF \E k \in 1..Len(t) : t[k] \in Whitespace
                     THEN (CHOOSE k \in 1..Len(t) :
                               /\ t[k] \in Whitespace
                               /\ \A j \in 1..(k - 1) : t[j] \notin Whitespace)
                          - 1
                     ELSE Len(t)
            IN <<SubSeq(t, 1, n)>> \o WsTokens(SubSeq(t, n + 1, Len(t)))

FirstTokenIsAdmin(message) ==
    WsTokens(message) # <<>> /\ WsTokens(message)[1] = ADMIN_COMMAND

RecipientTopic(recipient) == "aiko/host/1/1/" \o recipient

\* the message as published by the loop for entry i of the recipient list
Original(i) ==
    [kind |-> "publish", topic |-> RecipientTopic(call.recipients[i]),
     payload |-> call.message, line |-> 278, idx |-> i]

IsOriginal(e) == e.kind = "publish" /\ e.line = 278
IsRobotInteraction(e) ==
    e.kind = "action" \/ (e.kind = "publish" /\ e.line = 371)
SentMessage == call.op = "send_message"

(***************************************************************************)
(* C1: a body whose first token is "/admin" and which has a second token   *)
(* sets the admin state to that second token, publishes nothing and calls  *)
(* no side-effect handler, whoever sends it and whatever the recipients.   *)
(***************************************************************************)
C1_AdminOverrideConsumed ==
    (SentMessage /\ FirstTokenIsAdmin(call.message)
        /\ Len(WsTokens(call.message)) >= 2)
    => (share_admin = WsTokens(call.message)[2] /\ trace = <<>>)

(***************************************************************************)
(* C2: a message whose first token is not "/admin" is published exactly    *)
(* once per entry of the recipient list, in list order, on the topic       *)
(* <server topic path>/<recipient>; an empty list publishes nothing and    *)
(* raises nothing.                                                         *)
(***************************************************************************)
C2_PublishedOncePerEntry ==
    (SentMessage /\ ~FirstTokenIsAdmin(call.message))
    => /\ SelectSeq(trace, IsOriginal)
              = [i \in 1..Len(call.recipients) |-> Original(i)]
       /\ (call.recipients = <<>> => trace = <<>>)

(***************************************************************************)
(* C3: within one send_message call every handler-derived response on a    *)
(* recipient's topic comes after the original message published on that    *)
(* topic for the same entry of the recipient list.                         *)
(***************************************************************************)
C3_OriginalBeforeResponse ==
    SentMessage =>
        \A k \in 1..Len(trace) :
            (/\ trace[k].kind = "publish"
             /\ ~IsOriginal(trace[k])
             /\ trace[k].topic = RecipientTopic(call.recipients[trace[k].idx]))
            => \E j \in 1..(k - 1) : trace[j] = Original(trace[k].idx)

C3_Witness ==
    /\ SentMessage
    /\ \E k \in 1..Len(trace) :
           /\ trace[k].kind = "publish"
           /\ trace[k].line = 354
           /\ trace[k].payload \in LLMResponses
           /\ call.recipients[trace[k].idx] = "llm"

(***************************************************************************)
(* C4: an exception raised while one recipient is handled (by the LLM      *)
(* backend or by the robot's action call) neither keeps the message from   *)
(* the later recipients of the list nor leaves send_message.               *)
(***************************************************************************)
C4_FailureIsolated ==
    SentMessage =>
        \A k \in 1..Len(trace) :
            trace[k].kind = "raise"
            => /\ \A i \in (trace[k].idx + 1)..Len(call.recipients) :
                      \E j \in 1..Len(trace) : trace[j] = Original(i)
               /\ ~Raised(trace)

(***************************************************************************)
(* C9: with the LLM flag off, each message the loop routes to "llm" is     *)
(* followed at once by the fixed text "LLM is not enabled" on the llm      *)
(* topic; the backend is not called and nothing goes to the robot for that *)
(* entry, whatever the body says.                                          *)
(***************************************************************************)
C9_LlmDisabledFixedText ==
    (SentMessage /\ ~llm_enabled) =>
        /\ \A k \in 1..Len(trace) : trace[k].kind # "llm"
        /\ \A k \in 1..Len(trace) :
               (IsOriginal(trace[k]) /\ call.recipients[trace[k].idx] = "llm")
               => /\ k < Len(trace)
                  /\ trace[k + 1] =
                         [kind |-> "publish", topic |-> RecipientTopic("llm"),
                          payload |-> LLM_NOT_ENABLED, line |-> 354,
                          idx |-> trace[k].idx]
                  /\ \A j \in 1..Len(trace) :
                         trace[j].idx = trace[k].idx
                         => ~IsRobotInteraction(trace[j])

C9_Witness ==
    /\ SentMessage
    /\ ~llm_enabled
    /\ robot_server # None
    /\ \E i \in 1..Len(call.recipients) : call.recipients[i] = "llm"
    /\ Contains(<<"Oscar">>, call.message)
    /\ \E k \in 1..Len(trace) : trace[k].payload = LLM_NOT_ENABLED

(***************************************************************************)
(* C10: with a robot connected, each message the loop routes to "robot"    *)
(* causes exactly one robot interaction: a trimmed body that begins with   *)
(* "(" and ends with ")" is published on the robot's input topic and the   *)
(* action entry point is not called; any other body is passed to the       *)
(* action entry point and nothing is published on the robot's input topic. *)
(***************************************************************************)
Parenthesized(message) ==
    LET t == strip(message)
    IN t # <<>> /\ Head(t) = "(" /\ endswith(t, <<")">>)

RobotInteractionsOf(i) ==
    SelectSeq(trace, LAMBDA e : e.idx = i /\ (IsRobotInteraction(e)))

C10_OneRobotInteraction ==
    (SentMessage /\ robot_server # None) =>
        \A i \in 1..Len(call.recipients) :
            (call.recipients[i] = "robot"
                /\ \E k \in 1..Len(trace) : trace[k] = Original(i))
            => /\ Len(RobotInteractionsOf(i)) = 1
               /\ RobotInteractionsOf(i)[1] =
                      IF Parenthesized(call.message)
                      THEN [kind |-> "publish",
                            topic |-> "aiko/host/2/" \o robot_server \o "/in",
                            payload |-> strip(call.message), line |-> 371,
                            idx |-> i]
                      ELSE [kind |-> "action", topic |-> "",
                            payload |-> call.message, line |-> 373, idx |-> i]

C10_Witness ==
    /\ SentMessage
    /\ robot_server # None
    /\ \E i \in 1..Len(call.recipients) :
           /\ call.recipients[i] = "robot"
           /\ Parenthesized(call.message)
           /\ call.message # strip(call.message)
           /\ \E k \in 1..Len(trace) :
                  trace[k].idx = i /\ trace[k].line = 371

(***************************************************************************)
(* C5: parse_recipients returns the comma-separated tokens of its argument *)
(* trimmed, without the blank ones: no result token is empty, padded or    *)
(* holds a comma; there are as many as the argument has non-blank tokens;  *)
(* joined by commas they are the argument with the blank tokens, the       *)
(* padding and the commas around them removed (order and duplicates kept); *)
(* "" and None give the empty list.                                        *)
(***************************************************************************)
Parsed == call.op = "parse_recipients"
IsTokenChar(c) == c # "," /\ c \notin Whitespace

\* position i of text lies in a token that has a character at or before i
\* (at or after i): no comma lies between the two
TokenCharBefore(text, i) ==
    \E j \in 1..i :
        IsTokenChar(text[j]) /\ \A m \in j..i : text[m] # ","
TokenCharAfter(text, i) ==
    \E j \in i..Len(text) :
        IsTokenChar(text[j]) /\ \A m \in i..j : text[m] # ","

\* the characters of text that the result keeps: those of a token from its
\* first to its last non-blank character, and the first comma after every
\* non-blank token but the last
Kept(text, i) ==
    IF text[i] = ","
    THEN /\ \E j \in 1..(i - 1) :
                IsTokenChar(text[j]) /\ \A m \in j..(i - 1) : text[m] # ","
         /\ \E j \in (i + 1)..Len(text) : IsTokenChar(text[j])
    ELSE TokenCharBefore(text, i) /\ TokenCharAfter(text, i)

RECURSIVE KeptText(_, _)
KeptText(text, i) ==
    IF i > Len(text) THEN <<>>
    ELSE (IF Kept(text, i) THEN <<text[i]>> ELSE <<>>)
             \o KeptText(text, i + 1)

\* the tokens that begin a non-blank token of text
NonBlankTokens(text) ==
    Cardinality({i \in 1..Len(text) :
        /\ IsTokenChar(text[i])
        /\ \A j \in 1..(i - 1) :
               (\A m \in j..(i - 1) : text[m] # ",") => text[j] \in Whitespace})

RECURSIVE JoinComma(_)
JoinComma(tokens) ==
    IF tokens = <<>> THEN <<>>
    ELSE IF Len(tokens) = 1 THEN tokens[1]
    ELSE tokens[1] \o <<",">> \o JoinComma(Tail(tokens))

C5_ParseRecipients ==
    Parsed =>
        /\ \A n \in 1..Len(parse_out) :
               /\ parse_out[n] # <<>>
               /\ IsTokenChar(parse_out[n][1])
               /\ IsTokenChar(parse_out[n][Len(parse_out[n])])
               /\ \A m \in 1..Len(parse_out[n]) : parse_out[n][m] # ","
        /\ Len(parse_out) = NonBlankTokens(parse_in.text)
        /\ JoinComma(parse_out) = KeptText(parse_in.text, 1)
        /\ (parse_in.none \/ parse_in.text = <<>>) => parse_out = <<>>

C5_Witness ==
    /\ Parsed
    /\ parse_in.text = <<"a", ",", ",", "a">>
    /\ parse_out = <<(<<"a">>), (<<"a">>)>>

(***************************************************************************)
(* Vocabulary of the bot claims                                            *)
(***************************************************************************)
BotHandled == call.op = "server_message_handler"
BotReplied == \E k \in 1..Len(trace) : trace[k].kind = "send_message"
Mentions(botname, body) ==
    \E i \in 1..Len(body) :
        /\ i + Len(Lexemes(botname)) - 1 <= Len(body)
        /\ \A k \in 1..Len(Lexemes(botname)) :
               body[i + k - 1] = Lexemes(botname)[k]
HasMarker(body) ==
    \E i \in 1..(Len(body) - 1) : body[i] = " " /\ body[i + 1] = "!!!!"
EndsWithMarker(body) ==
    Len(body) >= 2 /\ body[Len(body) - 1] = " " /\ body[Len(body)] = "!!!!"

(***************************************************************************)
(* C6 as stated: a bot connected to the server replies when the body       *)
(* contains its name and lacks the marker " !!!!", and does not reply      *)
(* whenever the body contains the marker, wherever the marker stands.      *)
(***************************************************************************)
C6_NoReplyWhenMarkerAnywhere ==
    (BotHandled /\ bot_chat_server[call.self] # None) =>
        /\ (Mentions(call.self, call.message) /\ ~HasMarker(call.message))
               => BotReplied
        /\ HasMarker(call.message) => ~BotReplied

(***************************************************************************)
(* C6 as amended: a bot connected to the server replies exactly when the   *)
(* body contains its name and does not end with the marker " !!!!"; a     *)
(* marker elsewhere in the body does not keep it from replying.            *)
(***************************************************************************)
C6_ReplyUnlessMarkerAtEnd ==
    (BotHandled /\ bot_chat_server[call.self] # None) =>
        (BotReplied <=> (Mentions(call.self, call.message)
                            /\ ~EndsWithMarker(call.message)))

C6_Witness ==
    /\ BotHandled
    /\ bot_chat_server[call.self] # None
    /\ Mentions(call.self, call.message)
    /\ HasMarker(call.message)
    /\ ~EndsWithMarker(call.message)
    /\ BotReplied

(***************************************************************************)
(* C7: with one server and the bots on the general channel, every reply a  *)
(* bot sends ends with the marker, no bot (the author included) replies to *)
(* a message a bot sent, and so no bot sends more replies than people have *)
(* posted messages: the chain of replies ends.                             *)
(***************************************************************************)
C7_RepliesEnd ==
    /\ \A b \in BotNames : replies[b] <= human_posts
    /\ \A k \in 1..Len(mailbox) :
           mailbox[k].username \in BotNames
           => EndsWithMarker(mailbox[k].message)
    /\ \A b \in BotNames : \A k \in 1..Len(inbox[b]) :
           inbox[b][k].author \in BotNames
           => EndsWithMarker(inbox[b][k].payload)
    /\ (BotHandled /\ call.username \in BotNames) => ~BotReplied

\* @@bot has handled the reply of @@bot2, which names it
C7_Witness ==
    /\ BotHandled
    /\ call.self = "@@bot"
    /\ call.username = "@@bot2"
    /\ bot_chat_server["@@bot"] # None
    /\ Mentions("@@bot", call.message)
    /\ replies["@@bot2"] = 1

(***************************************************************************)
(* C8: when a REPL connected to a server handles ":change_channel <name>"  *)
(* or ":cc <name>", it makes exactly one unsubscribe call, for the old     *)
(* channel's topic, and then exactly one subscribe call, for               *)
(* <server topic path>/<name>; afterwards the old channel's topic has no   *)
(* handler of that REPL, so that nothing published on it is delivered      *)
(* (the old channel being another one than <name>).                        *)
(***************************************************************************)
CommandHandled == call.op = "command_handler"
IsChangeChannel(line) ==
    /\ Len(WsTokens(line)) >= 2
    /\ WsTokens(line)[1] \in {<<":change_channel">>, <<":cc">>}

C8_ChangeChannelResubscribes ==
    (CommandHandled /\ repl_chat_server # None /\ IsChangeChannel(call.message))
    => LET old == "aiko/host/1/1/" \o call.recipients[1]
           new == "aiko/host/1/1/" \o Concat(WsTokens(call.message)[2])
       IN /\ Len(trace) = 2
          /\ trace[1].kind = "remove_message_handler"
          /\ trace[1].topic = old
          /\ trace[2].kind = "add_message_handler"
          /\ trace[2].topic = new
          /\ old # new => old \notin repl_handlers

(***************************************************************************)
(* Vocabulary of the REPL claims                                           *)
(***************************************************************************)
MetaCommands ==
    {<<":change_channel">>, <<":cc">>, <<":exit">>, <<":x">>, <<":help">>,
     <<":?">>, <<":list_channels">>, <<":lc">>}
IsChatLine(line) ==
    WsTokens(line) # <<>> /\ WsTokens(line)[1] \notin MetaCommands
IsBlankLine(line) == WsTokens(line) = <<>>

\* the step in which command_handler handles a line
CommandStep == call = NoCall /\ call'.op = "command_handler"

\* the handler made one send_message call, for the trimmed line on the
\* channel the REPL was on, and did nothing else
ForwardedOnce ==
    /\ Len(trace') = 1
    /\ trace'[1].kind = "send_message"
    /\ trace'[1].payload = strip(call'.message)
    /\ mailbox' = Append(mailbox,
                         [username |-> "alice",
                          recipients |-> <<current_channel>>,
                          message |-> strip(call'.message)])

NothingDone ==
    /\ trace' = <<>>
    /\ UNCHANGED <<mailbox, repl_vars, server_vars>>

(***************************************************************************)
(* C11 as stated: every line that is not blank and whose first token is    *)
(* no meta-command makes the REPL call send_message exactly once, with its *)
(* username, the current channel and the trimmed line; a blank line makes  *)
(* no call, no output and no change of state.                              *)
(***************************************************************************)
C11_EveryChatLineForwarded ==
    [][CommandStep =>
          /\ IsChatLine(call'.message) => ForwardedOnce
          /\ IsBlankLine(call'.message) => NothingDone]_vars

(***************************************************************************)
(* C11 as amended: while a chat server is connected, every such line makes *)
(* the REPL call send_message exactly once, with its username, the current *)
(* channel and the trimmed line; while none is connected the line is       *)
(* dropped without a call; a blank line makes no call, no output and no    *)
(* change of state.                                                        *)
(***************************************************************************)
C11_ChatLineForwardedWhenConnected ==
    [][CommandStep =>
          /\ (IsChatLine(call'.message) /\ repl_chat_server # None)
                 => ForwardedOnce /\ UNCHANGED repl_vars
          /\ (IsChatLine(call'.message) /\ repl_chat_server = None)
                 => NothingDone
          /\ IsBlankLine(call'.message) => NothingDone]_vars

\* a padded chat line was forwarded from another channel than the default
C11_Witness ==
    /\ CommandHandled
    /\ IsChatLine(call.message)
    /\ call.message # strip(call.message)
    /\ call.recipients # <<_CHANNEL_NAME>>
    /\ \E k \in 1..Len(trace) : trace[k].kind = "send_message"
    /\ mailbox # <<>>
    /\ mailbox[Len(mailbox)].recipients = call.recipients

(***************************************************************************)
(* Vocabulary of the admin claims                                          *)
(***************************************************************************)
\* the step in which the server handles one send_message call
SendStep == call = NoCall /\ call'.op = "send_message"

\* the body is an admin override: the directive and a name after it
IsAdminOverride(message) ==
    FirstTokenIsAdmin(message) /\ Len(WsTokens(message)) >= 2

\* the messages the loop of that call published, one per recipient
FannedOutToAll ==
    SelectSeq(trace', IsOriginal)
        = [i \in 1..Len(call'.recipients) |->
              [kind |-> "publish",
               topic |-> RecipientTopic(call'.recipients[i]),
               payload |-> call'.message, line |-> 278, idx |-> i]]

(***************************************************************************)
(* C12: a message whose trimmed body is the directive "/admin" alone       *)
(* leaves the admin state as it was and is published to every recipient    *)
(* like any other message.                                                 *)
(***************************************************************************)
C12_BareDirectiveFannedOut ==
    [][(SendStep /\ WsTokens(call'.message) = <<ADMIN_COMMAND>>)
           => (share_admin' = share_admin /\ FannedOutToAll)]_vars

(***************************************************************************)
(* C13: the admin state is the default identity at initialisation; a       *)
(* send_message call whose body is an admin override sets it to the name   *)
(* the override gives, and every other step leaves it as it was, so that   *)
(* it always is the name of the most recent override, or the default.      *)
(***************************************************************************)
C13_AdminLastWriteWins ==
    /\ share_admin = <<"andyg">>
    /\ [][IF SendStep /\ IsAdminOverride(call'.message)
          THEN share_admin' = WsTokens(call'.message)[2]
          ELSE share_admin' = share_admin]_vars

(***************************************************************************)
(* C19: the admin state is never the empty string, and after an admin      *)
(* override, however the directive and the name are separated, it is the   *)
(* second whitespace-delimited token of the body.                          *)
(***************************************************************************)
C19_AdminNeverEmpty ==
    /\ share_admin # <<>>
    /\ (SentMessage /\ IsAdminOverride(call.message))
           => (share_admin = WsTokens(call.message)[2]
                   /\ WsTokens(call.message)[2] # <<>>)

(***************************************************************************)
(* C14: whatever discovery events and change-channel commands have come,   *)
(* the REPL has its message handler on at most one server channel topic,   *)
(* that topic is <current server topic path>/<current_channel>, and while  *)
(* no server is connected it has it on none.                               *)
(***************************************************************************)
C14_OneSubscription ==
    /\ Cardinality(repl_handlers) <= 1
    /\ \A topic \in repl_handlers :
           topic = chat_server_topic_path \o "/" \o current_channel
    /\ repl_chat_server = None => repl_handlers = {}

(***************************************************************************)
(* C15: when send_message is given its recipients as a raw comma-separated *)
(* string, the message is published once for every name parse_recipients   *)
(* returns for that string, in that order, on that name's topic.           *)
(***************************************************************************)
C15_RawRecipientsResolved ==
    SentMessage =>
        LET names == parse_recipients(Str(call.recipients))
        IN SelectSeq(trace, IsOriginal)
               = [i \in 1..Len(names) |->
                     [kind |-> "publish",
                      topic |-> RecipientTopic(Concat(names[i])),
                      payload |-> call.message, line |-> 278, idx |-> i]]

(***************************************************************************)
(* C16: with no robot connected, a message the loop routes to "robot" is   *)
(* published on the robot channel's topic, leads to no robot interaction   *)
(* and to no fault, and the loop goes on: every later recipient gets the   *)
(* message too, unless the handler of a later recipient ends the call.     *)
(***************************************************************************)
C16_NoRobotNoFault ==
    (SentMessage /\ robot_server = None) =>
        \A i \in 1..Len(call.recipients) :
            (call.recipients[i] = "robot"
                /\ \E k \in 1..Len(trace) : trace[k].idx = i)
            => /\ \E k \in 1..Len(trace) :
                      /\ trace[k].kind = "publish"
                      /\ trace[k].topic = "aiko/host/1/1/robot"
                      /\ trace[k].payload = call.message
                      /\ trace[k].idx = i
               /\ \A k \in 1..Len(trace) :
                      trace[k].idx = i
                      => (~IsRobotInteraction(trace[k])
                              /\ trace[k].kind # "raise")
               /\ \A j \in (i + 1)..Len(call.recipients) :
                      \/ \E k \in 1..Len(trace) : trace[k] = Original(j)
                      \/ \E k \in 1..Len(trace) :
                             /\ trace[k].kind = "raise"
                             /\ trace[k].idx \in (i + 1)..(j - 1)

\* a robot had been there and has gone; a free-text body went to robot and
\* then to general
C16_Witness ==
    /\ SentMessage
    /\ robot_server = None
    /\ robot_server_topic # Unset
    /\ call.recipients = <<"robot", "general">>
    /\ ~Parenthesized(call.message)
    /\ Len(trace) = 2
    /\ trace[2] = Original(2)

(***************************************************************************)
(* C17: ":change_channel" / ":cc" without a name, ":help" / ":?" and       *)
(* ":list_channels" / ":lc" leave the current channel and the subscription *)
(* as they were, make no subscribe or unsubscribe call and send nothing to *)
(* the server.                                                             *)
(***************************************************************************)
StayCommands ==
    {<<":change_channel">>, <<":cc">>, <<":help">>, <<":?">>,
     <<":list_channels">>, <<":lc">>}

C17_NoStateChange ==
    [][(CommandStep /\ Len(WsTokens(call'.message)) = 1
            /\ WsTokens(call'.message)[1] \in StayCommands)
       => /\ UNCHANGED <<current_channel, chat_server_topic, repl_handlers,
                         mailbox>>
          /\ \A k \in 1..Len(trace') :
                 trace'[k].kind \notin {"add_message_handler",
                                        "remove_message_handler",
                                        "send_message"}]_vars

\* a connected REPL on its channel got ":cc" followed by blanks only
C17_Witness ==
    /\ CommandHandled
    /\ repl_chat_server # None
    /\ repl_handlers # {}
    /\ WsTokens(call.message) = <<(<<":cc">>)>>
    /\ Len(call.message) > 1
    /\ call.message[1] = ":cc"
    /\ trace = <<>>
    /\ current_channel = call.recipients[1]

(***************************************************************************)
(* C18: ":exit" / ":x" and SIGINT both stop the input loop and release the *)
(* input resource and then signal the end of the process: the stop comes   *)
(* before the signal, and the process is never told to end while the       *)
(* input session still runs or still holds the terminal.                   *)
(***************************************************************************)
IsExitLine(line) ==
    Len(WsTokens(line)) = 1 /\ WsTokens(line)[1] \in {<<":exit">>, <<":x">>}

C20_RobotHeldWhilePresent ==
    /\ robot_server # None <=> robots_present # {}
    /\ robot_server # None
       => \E name \in robots_present :
              robot_server_topic = "aiko/host/2/" \o name \o "/in"

(***************************************************************************)
(* C21: ":change_channel <name>" handled while no chat server is connected *)
(* (before the first discovery, or after the server has gone) ends without *)
(* a fault and sets the current channel to <name>; and right after a       *)
(* server is discovered the REPL is subscribed to                          *)
(* <server topic path>/<current channel> and to nothing else.              *)
(***************************************************************************)
\* the command, one space, the name
IsPlainChangeChannel(line) ==
    /\ IsChangeChannel(line)
    /\ Len(WsTokens(line)) = 2
    /\ line = WsTokens(line)[1] \o <<" ">> \o WsTokens(line)[2]

C21_ChangeChannelWhileDisconnected ==
    /\ (CommandHandled /\ repl_chat_server = None
            /\ IsPlainChangeChannel(call.message))
       => /\ \A k \in 1..Len(trace) : trace[k].kind # "raise"
          /\ current_channel = Concat(WsTokens(call.message)[2])
    /\ (call.op = "discovery_add" /\ call.self = "repl")
       => repl_handlers = {"aiko/host/1/1/" \o current_channel}

====
